---- MODULE Spec2Model ----
(***************************************************************************)
(* Deadline-risk prediction and reminder scheduling of SynergySphere       *)
(* (backend/services/deadline_service.py, backend/tasks/deadline_tasks.py, *)
(* backend/services/project_service.py).                                   *)
(*                                                                         *)
(* Time is measured in whole hours since an arbitrary origin; a datetime   *)
(* is an integer, a timedelta is a difference of integers, and None is     *)
(* NoDate.  One handler runs within one clock instant: the successive      *)
(* get_utc_now() calls of a handler return the same hour.                  *)
(***************************************************************************)
EXTENDS Integers, Sequences, FiniteSets, Bags, TLC

VARIABLES
    now,            \* get_utc_now(), in hours
    tasks,          \* the Task table: task id -> row
    projects,       \* the Project table: project id -> row
    notifications,  \* the Notification table, in insertion order
    queue,          \* the Celery broker: a bag of pending messages
    result          \* what the last handler returned to its caller

vars == <<now, tasks, projects, notifications, queue, result>>

-----------------------------------------------------------------------------
(* Bounds of the model                                                     *)

MaxTime == 48            \* the clock stops here
MaxNotifications == 2    \* Notification rows the table may hold
MaxQueue == 2            \* messages the broker may hold

Tasks == {1}
Users == {1, 2}
UnknownUsers == {3}
Projects == {1}
UnknownTasks == {9}

-----------------------------------------------------------------------------
(* Program constants                                                       *)

NoDate == -1                 \* a NULL datetime column
HoursPerDay == 24
FarFutureDays == 365
CooldownHours == 24
MaxRetries == 3
ScoreScale == 10             \* a priority score is kept in tenths of a point
NoParent == 0                \* a NULL parent_task_id

Statuses == {"pending", "in_progress", "completed"}

-----------------------------------------------------------------------------
(* VelocityPredictor and RiskClassifier: pure functions of a Task row      *)
(* and the clock.  Fractions are kept exact as [num, den] with den > 0.    *)

\* calculate_completion_velocity with the elapsed time left in hours
calculate_completion_velocity_per_hour(task, clock) ==
    IF task.created_at = NoDate \/ task.percent_complete <= 0
    THEN [num |-> 0, den |-> 1]
    ELSE LET hours_elapsed == clock - task.created_at
         IN  IF hours_elapsed <= 0
             THEN [num |-> 0, den |-> 1]
             ELSE [num |-> task.percent_complete, den |-> hours_elapsed]

\* DeadlineService.calculate_completion_velocity, in percent per day
calculate_completion_velocity(task, clock) ==
    IF task.created_at = NoDate \/ task.percent_complete <= 0
    THEN [num |-> 0, den |-> 1]
    ELSE LET hours_elapsed == clock - task.created_at
         IN  IF hours_elapsed <= 0
             THEN [num |-> 0, den |-> 1]
             ELSE [num |-> task.percent_complete * HoursPerDay,
                   den |-> hours_elapsed]

\* DeadlineService.predict_completion_date, an instant in hours
predict_completion_date(task, clock) ==
    LET velocity == calculate_completion_velocity(task, clock)
    IN  IF velocity.num <= 0 \/ task.percent_complete >= 100
        THEN IF task.percent_complete >= 100
             THEN [num |-> clock, den |-> 1]
             ELSE [num |-> clock + FarFutureDays * HoursPerDay, den |-> 1]
        ELSE LET remaining_percent == 100 - task.percent_complete
             \* days_to_complete = remaining_percent / velocity
             IN  [num |-> clock * velocity.num
                          + remaining_percent * velocity.den * HoursPerDay,
                  den |-> velocity.num]

\* is_at_risk without its test of the status
is_at_risk_ignoring_status(task, clock) ==
    IF task.due_date = NoDate
    THEN FALSE
    ELSE LET predicted_completion == predict_completion_date(task, clock)
         IN  predicted_completion.num > task.due_date * predicted_completion.den

\* DeadlineService.is_at_risk
is_at_risk(task, clock) ==
    IF task.due_date = NoDate \/ task.status = "completed"
    THEN FALSE
    ELSE LET predicted_completion == predict_completion_date(task, clock)
         IN  predicted_completion.num > task.due_date * predicted_completion.den

\* (predicted_completion - due_date).days: whole days, rounded down
delay_days(task, clock) ==
    LET predicted_completion == predict_completion_date(task, clock)
    IN  (predicted_completion.num - task.due_date * predicted_completion.den)
            \div (predicted_completion.den * HoursPerDay)

\* get_risk_level with the bounds of its tiers taken as exclusive
get_risk_level_exclusive(task, clock) ==
    IF ~is_at_risk(task, clock) THEN "low"
    ELSE IF task.due_date = NoDate THEN "low"
    ELSE IF delay_days(task, clock) < 1 THEN "medium"
    ELSE IF delay_days(task, clock) < 3 THEN "high"
    ELSE "critical"

\* DeadlineService.get_risk_level
get_risk_level(task, clock) ==
    IF ~is_at_risk(task, clock) THEN "low"
    ELSE IF task.due_date = NoDate THEN "low"
    ELSE IF delay_days(task, clock) <= 1 THEN "medium"
    ELSE IF delay_days(task, clock) <= 3 THEN "high"
    ELSE "critical"

-----------------------------------------------------------------------------
(* Rows, messages and inputs                                               *)

\* Clock advances the environment may take, in hours
Steps == {12}

\* Due dates a task may be created with or moved to
TaskDueDates == {NoDate, 12, 36}

\* percent_complete values sent to PUT /tasks/<id>/progress
ProgressInputs == {-10, 0, 50, 100, 150}

\* Task.title; task ids double as titles, distinct tasks have distinct titles
title_of(t) == t

\* models/task.py: a Task row as create_task_direct inserts it
NewTask(t, owner, due, clock) ==
    [ owner_id |-> owner, title |-> title_of(t), created_at |-> clock,
      due_date |-> due, percent_complete |-> 0, status |-> "pending",
      status_id |-> "pending", priority_score |-> 0,
      estimated_effort |-> 0, parent_task_id |-> NoParent, subtasks |-> 0 ]

\* models/notification.py: a Notification row; the message keeps the
\* template that produced it and the title it embeds as "Task '<title>'"
NewNotification(user, template, title, clock) ==
    [ user_id |-> user, template |-> template, title |-> title,
      created_at |-> clock ]

\* Message templates that embed the signature "Task '<title>'"
TaskTemplates ==
    {"critical", "high_risk", "warning",
     "due_soon", "overdue", "at_risk", "progress_stalled"}

\* Notification.message.contains(f"Task '{title}'")
message_contains(n, title) ==
    n.template \in TaskTemplates /\ n.title = title

\* The dedup query with the window forgotten: only rows created at the
\* time of the query count
recent_notification_no_window(table, user, title, clock, window) ==
    \E i \in 1..Len(table) :
        /\ table[i].user_id = user
        /\ message_contains(table[i], title)
        /\ table[i].created_at >= clock

\* The dedup query of scan_and_notify and check_and_schedule_reminders:
\* rows of this user that contain the signature and are not older than
\* the window
recent_notification(table, user, title, clock, window) ==
    \E i \in 1..Len(table) :
        /\ table[i].user_id = user
        /\ message_contains(table[i], title)
        /\ table[i].created_at >= clock - window

\* models/project.py: a Project row, and the absence of one
NewProject(deadline) == [ exists |-> TRUE, deadline |-> deadline ]

NoProject == [ exists |-> FALSE, deadline |-> NoDate ]

\* Deadlines a project may be created with or moved to
ProjectDeadlines == {NoDate, 12, 36}

\* datetime.isoformat() and datetime.fromisoformat(): the text carries the
\* instant and the UTC offset of an aware datetime
isoformat(instant) == [ iso |-> instant, offset |-> "+00:00" ]

fromisoformat(text) == text.iso

NoText == [ iso |-> NoDate, offset |-> "" ]

\* A Celery message: the task name, its arguments, the eta before which a
\* worker will not run it (Asap for delay(), which sets none), and
\* request.retries
Message(name, id, reminder_type, reminder_time, eta, retries) ==
    [ name |-> name, id |-> id, reminder_type |-> reminder_type,
      reminder_time |-> reminder_time, eta |-> eta, retries |-> retries ]

Asap == 0

QueueSize(q) == BagCardinality(q)

Enqueue(q, m) == q (+) SetToBag({m})

Dequeue(q, m) == q (-) SetToBag({m})

\* Sequence of the elements of a finite set of integers, ascending
RECURSIVE SetToSeq(_)
SetToSeq(S) ==
    IF S = {} THEN <<>>
    ELSE LET m == CHOOSE x \in S : \A y \in S : x <= y
         IN  <<m>> \o SetToSeq(S \ {m})

-----------------------------------------------------------------------------
(* SweepCoordinator: get_tasks_at_risk and scan_and_notify                 *)

\* risk_order of get_tasks_at_risk
risk_order(level) ==
    CASE level = "critical" -> 4
      [] level = "high"     -> 3
      [] level = "medium"   -> 2
      [] level = "low"      -> 1
      [] OTHER              -> 0

\* list.sort(key=risk_order, reverse=True): stable, highest key first
RECURSIVE InsertByRisk(_, _)
InsertByRisk(sorted, item) ==
    IF sorted = <<>> THEN <<item>>
    ELSE IF risk_order(Head(sorted).risk_level) >= risk_order(item.risk_level)
         THEN <<Head(sorted)>> \o InsertByRisk(Tail(sorted), item)
         ELSE <<item>> \o sorted

RECURSIVE SortByRisk(_)
SortByRisk(items) ==
    IF items = <<>> THEN <<>>
    ELSE InsertByRisk(SortByRisk(SubSeq(items, 1, Len(items) - 1)),
                      items[Len(items)])

\* The query of get_tasks_at_risk without its owner filter
ActiveTasksOfAnyOwner(table, user) ==
    { t \in DOMAIN table :
        /\ table[t].status \in {"pending", "in_progress"}
        /\ table[t].due_date # NoDate }

\* The query of get_tasks_at_risk: this owner's rows whose status is
\* pending or in_progress and whose due_date is not NULL
ActiveTasksOf(table, user) ==
    { t \in DOMAIN table :
        /\ table[t].owner_id = user
        /\ table[t].status \in {"pending", "in_progress"}
        /\ table[t].due_date # NoDate }

\* get_tasks_at_risk returning the rows in query order, not sorted
get_tasks_at_risk_unsorted(table, user, clock) ==
    LET rows == SetToSeq(ActiveTasksOf(table, user))
        at_risk == SelectSeq(rows, LAMBDA t : is_at_risk(table[t], clock))
        task_data(t) == [ id |-> t, title |-> table[t].title,
                          risk_level |-> get_risk_level(table[t], clock) ]
    IN  [ i \in 1..Len(at_risk) |-> task_data(at_risk[i]) ]

\* DeadlineService.get_tasks_at_risk
get_tasks_at_risk(table, user, clock) ==
    LET rows == SetToSeq(ActiveTasksOf(table, user))
        at_risk == SelectSeq(rows, LAMBDA t : is_at_risk(table[t], clock))
        task_data(t) == [ id |-> t, title |-> table[t].title,
                          risk_level |-> get_risk_level(table[t], clock) ]
    IN  SortByRisk([ i \in 1..Len(at_risk) |-> task_data(at_risk[i]) ])

\* The message scan_and_notify writes for a risk level
scan_template(risk_level) ==
    IF risk_level = "critical" THEN "critical"
    ELSE IF risk_level = "high" THEN "high_risk"
    ELSE "warning"

\* The loop of scan_and_notify counting an email as sent whether or not
\* send_email raised
RECURSIVE scan_loop_counting_failed(_, _, _, _, _, _)
scan_loop_counting_failed(at_risk_tasks, i, user, clock, email_ok, acc) ==
    IF i > Len(at_risk_tasks) THEN acc
    ELSE LET task_data == at_risk_tasks[i]
         IN  IF recent_notification(acc.table, user, task_data.title,
                                    clock, CooldownHours)
             THEN scan_loop_counting_failed(at_risk_tasks, i + 1, user,
                                            clock, email_ok, acc)
             ELSE scan_loop_counting_failed(at_risk_tasks, i + 1, user,
                    clock, email_ok,
                    [ table |-> Append(acc.table,
                         NewNotification(user,
                             scan_template(task_data.risk_level),
                             task_data.title, clock)),
                      notifications_created |-> acc.notifications_created + 1,
                      emails_sent |-> acc.emails_sent + 1 ])

\* The loop of scan_and_notify over at_risk_tasks[i..]: acc carries the
\* session's Notification rows and the two counters.  The dedup query
\* autoflushes the session, so it sees the rows added earlier in the loop.
RECURSIVE scan_loop(_, _, _, _, _, _)
scan_loop(at_risk_tasks, i, user, clock, email_ok, acc) ==
    IF i > Len(at_risk_tasks) THEN acc
    ELSE LET task_data == at_risk_tasks[i]
         IN  IF recent_notification(acc.table, user, task_data.title,
                                    clock, CooldownHours)
             THEN scan_loop(at_risk_tasks, i + 1, user, clock, email_ok, acc)
             ELSE scan_loop(at_risk_tasks, i + 1, user, clock, email_ok,
                    [ table |-> Append(acc.table,
                         NewNotification(user,
                             scan_template(task_data.risk_level),
                             task_data.title, clock)),
                      notifications_created |-> acc.notifications_created + 1,
                      emails_sent |-> acc.emails_sent
                                      + (IF email_ok THEN 1 ELSE 0) ])

\* DeadlineService.scan_and_notify(user_id); email_ok tells whether
\* send_email succeeds during this sweep (its failure is caught and printed)
ScanAndNotify(user, email_ok) ==
    IF user \notin Users
    THEN /\ result' = [ op |-> "scan_and_notify", user_id |-> user,
                        error |-> "User not found" ]
         /\ UNCHANGED <<now, tasks, projects, notifications, queue>>
    ELSE LET at_risk_tasks == get_tasks_at_risk(tasks, user, now)
             done == scan_loop(at_risk_tasks, 1, user, now, email_ok,
                        [ table |-> notifications,
                          notifications_created |-> 0,
                          emails_sent |-> 0 ])
         IN  /\ Len(done.table) <= MaxNotifications
             /\ notifications' = done.table
             /\ result' = [ op |-> "scan_and_notify", user_id |-> user,
                            at_risk_tasks_count |-> Len(at_risk_tasks),
                            notifications_created |-> done.notifications_created,
                            emails_sent |-> done.emails_sent,
                            timestamp |-> now ]
             /\ UNCHANGED <<now, tasks, projects, queue>>

\* percent_complete passed through unchanged
clamp_percent_unchecked(percent) == percent

\* max(0, min(100, percent_complete))
clamp_percent(percent) ==
    IF percent > 100 THEN 100 ELSE IF percent < 0 THEN 0 ELSE percent

\* The status after a progress change that never completes the task
progress_status_never_completed(task, percent_complete) ==
    IF percent_complete > 0 /\ task.status = "pending"
    THEN "in_progress"
    ELSE task.status

\* Task.status after a change of progress to percent_complete
progress_status(task, percent_complete) ==
    IF percent_complete >= 100 THEN "completed"
    ELSE IF percent_complete > 0 /\ task.status = "pending"
         THEN "in_progress"
         ELSE task.status

\* Every call taken for a change of progress
progress_changed_always(task, percent_complete) == TRUE

\* "Only update if progress changed"
progress_changed(task, percent_complete) ==
    task.percent_complete # percent_complete

\* task.last_progress_update = get_utc_now().  The column is kept in the
\* rows of the specifications that read it and projected away in the others.
stamp_progress(task, clock) ==
    IF "last_progress_update" \in DOMAIN task
    THEN [task EXCEPT !.last_progress_update = clock]
    ELSE task

\* DeadlineService.update_task_progress(task_id, percent_complete), the
\* service behind PUT /tasks/<id>/progress
UpdateTaskProgress(t, percent) ==
    IF t \notin DOMAIN tasks
    THEN /\ result' = [ op |-> "update_task_progress", task_id |-> t,
                        percent_complete |-> percent, success |-> FALSE ]
         /\ UNCHANGED <<now, tasks, projects, notifications, queue>>
    ELSE LET task == tasks[t]
             percent_complete == clamp_percent(percent)
         IN  /\ tasks' =
                  IF progress_changed(task, percent_complete)
                  THEN [tasks EXCEPT ![t] =
                         stamp_progress(
                           [task EXCEPT
                              !.percent_complete = percent_complete,
                              !.status = progress_status(task,
                                                         percent_complete)],
                           now)]
                  ELSE tasks
             /\ result' = [ op |-> "update_task_progress", task_id |-> t,
                            percent_complete |-> percent, success |-> TRUE ]
             /\ UNCHANGED <<now, projects, notifications, queue>>

\* The clock advances
Tick(d) ==
    /\ now + d <= MaxTime
    /\ now' = now + d
    /\ UNCHANGED <<tasks, projects, notifications, queue, result>>

-----------------------------------------------------------------------------
(* Celery tasks of tasks/deadline_tasks.py                                 *)

\* The reminder check_and_schedule_reminders decides on for one task:
\* should_remind, reminder_type and reminder_delay (hours)
reminder_decision(task, clock) ==
    LET time_until_due == task.due_date - clock
    IN  IF time_until_due <= 0
        THEN [ should_remind |-> TRUE, reminder_type |-> "overdue",
               reminder_delay |-> 24 ]
        ELSE IF time_until_due <= 24
        THEN [ should_remind |-> TRUE, reminder_type |-> "due_soon",
               reminder_delay |-> 4 ]
        ELSE IF time_until_due <= 3 * 24
        THEN [ should_remind |-> TRUE, reminder_type |-> "due_soon",
               reminder_delay |-> 12 ]
        ELSE IF is_at_risk(task, clock)
        THEN [ should_remind |-> TRUE, reminder_type |-> "at_risk",
               reminder_delay |-> 24 ]
        ELSE [ should_remind |-> FALSE, reminder_type |-> "due_soon",
               reminder_delay |-> 0 ]

\* The loop of check_and_schedule_reminders over active_tasks[i..]; acc
\* carries the broker's messages and reminder_count
RECURSIVE check_loop(_, _, _, _)
check_loop(active_tasks, i, clock, acc) ==
    IF i > Len(active_tasks) THEN acc
    ELSE LET t == active_tasks[i]
             task == tasks[t]
             decision == reminder_decision(task, clock)
         IN  IF task.due_date - clock < -(7 * 24)
             THEN check_loop(active_tasks, i + 1, clock, acc)
             ELSE IF /\ decision.should_remind
                     /\ ~recent_notification(notifications, task.owner_id,
                            task.title, clock, decision.reminder_delay)
             THEN check_loop(active_tasks, i + 1, clock,
                    [ queue |-> Enqueue(acc.queue,
                         Message("send_deadline_reminder", t,
                                 decision.reminder_type, NoText, Asap, 0)),
                      reminder_count |-> acc.reminder_count + 1 ])
             ELSE check_loop(active_tasks, i + 1, clock, acc)

\* check_and_schedule_reminders(), run by Celery Beat
CheckAndScheduleReminders ==
    LET active_tasks ==
            SetToSeq({ t \in DOMAIN tasks :
                        /\ tasks[t].due_date # NoDate
                        /\ tasks[t].status \in {"pending", "in_progress"} })
        done == check_loop(active_tasks, 1, now,
                           [ queue |-> queue, reminder_count |-> 0 ])
    IN  /\ QueueSize(done.queue) <= MaxQueue
        /\ queue' = done.queue
        /\ result' = [ op |-> "check_and_schedule_reminders",
                       reminder_count |-> done.reminder_count ]
        /\ UNCHANGED <<now, tasks, projects, notifications>>

\* messages.get(reminder_type, messages['due_soon'])
reminder_template(reminder_type) ==
    IF reminder_type \in {"due_soon", "overdue", "at_risk", "progress_stalled"}
    THEN reminder_type
    ELSE "due_soon"

\* Every task taken as still relevant for reminders
still_relevant_always(task) == TRUE

\* "Check if task is still relevant for reminders" in
\* send_deadline_reminder
still_relevant(task) == task.status # "completed"

\* A worker runs send_deadline_reminder(task_id, reminder_type) for a
\* message whose eta has come; email_ok tells whether send_email succeeds
\* (its failure is caught and logged)
SendDeadlineReminder(m, email_ok) ==
    /\ m \in BagToSet(queue)
    /\ m.name = "send_deadline_reminder"
    /\ m.eta <= now
    /\ LET task == tasks[m.id]
       IN  IF m.id \notin DOMAIN tasks \/ task.owner_id \notin Users
           THEN \* task or user not found: logged, nothing done
                /\ queue' = Dequeue(queue, m)
                /\ result' = [ op |-> "send_deadline_reminder",
                               task_id |-> m.id, outcome |-> "not_found" ]
                /\ UNCHANGED <<now, tasks, projects, notifications>>
           ELSE IF still_relevant(task) = FALSE
           THEN /\ queue' = Dequeue(queue, m)
                /\ result' = [ op |-> "send_deadline_reminder",
                               task_id |-> m.id, outcome |-> "skipped" ]
                /\ UNCHANGED <<now, tasks, projects, notifications>>
           ELSE IF task.due_date = NoDate
           THEN \* task.due_date.strftime raises; self.retry re-sends the
                \* message (countdown under an hour) until max_retries
                /\ queue' = IF m.retries < MaxRetries
                            THEN Enqueue(Dequeue(queue, m),
                                         [m EXCEPT !.retries = @ + 1,
                                                   !.eta = Asap])
                            ELSE Dequeue(queue, m)
                /\ result' = [ op |-> "send_deadline_reminder",
                               task_id |-> m.id, outcome |-> "raised" ]
                /\ UNCHANGED <<now, tasks, projects, notifications>>
           ELSE /\ Len(notifications) < MaxNotifications
                /\ notifications' = Append(notifications,
                       NewNotification(task.owner_id,
                           reminder_template(m.reminder_type),
                           task.title, now))
                /\ queue' = Dequeue(queue, m)
                /\ result' = [ op |-> "send_deadline_reminder",
                               task_id |-> m.id, outcome |-> "sent",
                               email_sent |-> email_ok ]
                /\ UNCHANGED <<now, tasks, projects>>

-----------------------------------------------------------------------------
(* The engine: sweeps, periodic checks and the reminders they dispatch     *)

NoResult == [ op |-> "none" ]

Init ==
    /\ now = 0
    /\ tasks \in [Tasks -> { NewTask(t, 1, due, 0) :
                               t \in Tasks, due \in TaskDueDates }]
    /\ \A t \in Tasks : tasks[t].title = title_of(t)
    /\ projects = [p \in Projects |-> NoProject]
    /\ notifications = <<>>
    /\ queue = EmptyBag
    /\ result = NoResult

Next ==
    \/ \E d \in Steps : Tick(d)
    \/ \E t \in Tasks \cup UnknownTasks, percent \in ProgressInputs :
          UpdateTaskProgress(t, percent)
    \/ \E u \in Users \cup UnknownUsers, email_ok \in BOOLEAN :
          ScanAndNotify(u, email_ok)
    \/ CheckAndScheduleReminders
    \/ \E m \in BagToSet(queue), email_ok \in BOOLEAN :
          SendDeadlineReminder(m, email_ok)

Spec == Init /\ [][Next]_vars

-----------------------------------------------------------------------------
(* ReminderScheduler, task level                                           *)

\* reminder_intervals of update_task_priority_reminders, in hours
reminder_intervals(priority_score) ==
    IF priority_score >= 8 * ScoreScale THEN <<7 * 24, 3 * 24, 1 * 24, 4>>
    ELSE IF priority_score >= 5 * ScoreScale THEN <<3 * 24, 1 * 24>>
    ELSE <<1 * 24>>

\* The loop "for interval in reminder_intervals" over offsets[i..]: one
\* schedule_task_reminder.delay per reminder time still in the future
RECURSIVE submit_intervals(_, _, _, _, _, _)
submit_intervals(offsets, i, t, due_date, clock, q) ==
    IF i > Len(offsets) THEN q
    ELSE LET reminder_time == due_date - offsets[i]
         IN  submit_intervals(offsets, i + 1, t, due_date, clock,
                IF reminder_time > clock
                THEN Enqueue(q, Message("schedule_task_reminder", t, "",
                                        isoformat(reminder_time), Asap, 0))
                ELSE q)

\* DeadlineService.schedule_dynamic_reminders(task_id)
schedule_dynamic_reminders(t, q) ==
    Enqueue(q, Message("update_task_priority_reminders", t, "", NoText,
                       Asap, 0))

\* PUT /tasks/<id> with a due_date: update_task_direct
UpdateTaskDirect(t, due) ==
    LET due_date_changed == tasks[t].due_date # due
        q == IF due_date_changed /\ due # NoDate
             THEN schedule_dynamic_reminders(t, queue)
             ELSE queue
    IN  /\ QueueSize(q) <= MaxQueue
        /\ tasks' = [tasks EXCEPT ![t].due_date = due]
        /\ queue' = q
        /\ result' = [ op |-> "update_task_direct", task_id |-> t,
                       due_date_changed |-> due_date_changed ]
        /\ UNCHANGED <<now, projects, notifications>>

\* "Cancel existing reminders for this task" in
\* update_task_priority_reminders: a comment, no statement; the queue is
\* left as it was
cancel_task_reminders(t, q) == q

\* A worker runs update_task_priority_reminders(task_id)
UpdateTaskPriorityReminders(m) ==
    /\ m \in BagToSet(queue)
    /\ m.name = "update_task_priority_reminders"
    /\ LET task == tasks[m.id]
           rest == Dequeue(queue, m)
           q == IF m.id \notin DOMAIN tasks \/ task.status = "completed"
                THEN rest
                ELSE IF task.due_date # NoDate
                THEN submit_intervals(reminder_intervals(task.priority_score),
                                      1, m.id, task.due_date, now,
                                      cancel_task_reminders(m.id, rest))
                ELSE cancel_task_reminders(m.id, rest)
       IN  /\ QueueSize(q) <= MaxQueue
           /\ queue' = q
           /\ result' = [ op |-> "update_task_priority_reminders",
                          task_id |-> m.id, due_date |-> task.due_date,
                          priority_score |-> task.priority_score,
                          timestamp |-> now,
                          submitted |-> QueueSize(q) - QueueSize(rest) ]
           /\ UNCHANGED <<now, tasks, projects, notifications>>

\* schedule_task_reminder dropping a reminder whose time has passed
ScheduleTaskReminderDroppingLate(m) ==
    /\ m \in BagToSet(queue)
    /\ m.name = "schedule_task_reminder"
    /\ LET reminder_time == fromisoformat(m.reminder_time)
       IN  /\ queue' = IF reminder_time <= now
                       THEN Dequeue(queue, m)
                       ELSE Enqueue(Dequeue(queue, m),
                              Message("send_deadline_reminder", m.id,
                                      "due_soon", NoText, reminder_time, 0))
           /\ result' = [ op |-> "schedule_task_reminder", task_id |-> m.id,
                          eta |-> IF reminder_time <= now THEN Asap
                                  ELSE reminder_time ]
           /\ UNCHANGED <<now, tasks, projects, notifications>>

\* A worker runs schedule_task_reminder(task_id, reminder_datetime)
ScheduleTaskReminder(m) ==
    /\ m \in BagToSet(queue)
    /\ m.name = "schedule_task_reminder"
    /\ LET reminder_time == fromisoformat(m.reminder_time)
           eta == IF reminder_time <= now THEN Asap ELSE reminder_time
       IN  /\ queue' = Enqueue(Dequeue(queue, m),
                          Message("send_deadline_reminder", m.id, "due_soon",
                                  NoText, eta, 0))
           /\ result' = [ op |-> "schedule_task_reminder", task_id |-> m.id,
                          eta |-> eta ]
           /\ UNCHANGED <<now, tasks, projects, notifications>>

\* DeadlineService.schedule_standard_reminders(task_id)
ScheduleStandardReminders(t) ==
    LET task == tasks[t]
    IN  IF t \notin DOMAIN tasks \/ task.due_date = NoDate
        THEN /\ result' = [ op |-> "schedule_standard_reminders",
                            task_id |-> t, status |-> "skipped" ]
             /\ UNCHANGED <<now, tasks, projects, notifications, queue>>
        ELSE LET reminder_24h == task.due_date - 24
                 reminder_1h == task.due_date - 1
                 q1 == IF reminder_24h > now
                       THEN Enqueue(queue,
                              Message("schedule_task_reminder", t, "",
                                      isoformat(reminder_24h), Asap, 0))
                       ELSE queue
                 q2 == IF reminder_1h > now
                       THEN Enqueue(q1,
                              Message("schedule_task_reminder", t, "",
                                      isoformat(reminder_1h), Asap, 0))
                       ELSE q1
                 scheduled_count == (IF reminder_24h > now THEN 1 ELSE 0)
                                    + (IF reminder_1h > now THEN 1 ELSE 0)
             IN  /\ QueueSize(q2) <= MaxQueue
                 /\ queue' = q2
                 /\ result' = [ op |-> "schedule_standard_reminders",
                                task_id |-> t, status |-> "scheduled",
                                reminders_scheduled |-> scheduled_count,
                                timestamp |-> now ]
                 /\ UNCHANGED <<now, tasks, projects, notifications>>

-----------------------------------------------------------------------------
(* ReminderScheduler, project level                                        *)

\* The Celery tasks that tasks/notification_tasks.py defines
NotificationTasks ==
    {"send_task_assignment_notification", "send_project_update_notification"}

\* "from tasks.notification_tasks import <name>" raises ImportError for a
\* name the module does not define
CanImport(name) == name \in NotificationTasks

\* DeadlineService.schedule_project_reminders(project_id): the queue it
\* leaves and the dict it returns.  The import is the first statement of
\* its try block, whose handler turns every exception into status 'error'.
schedule_project_reminders(table, p, clock, q) ==
    IF ~CanImport("send_project_deadline_reminder")
    THEN [ queue |-> q,
           ret |-> [ project_id |-> p, status |-> "error" ] ]
    ELSE IF ~table[p].exists \/ table[p].deadline = NoDate
    THEN [ queue |-> q,
           ret |-> [ project_id |-> p, status |-> "skipped",
                     reason |-> "No deadline set" ] ]
    ELSE IF table[p].deadline <= clock
    THEN [ queue |-> q,
           ret |-> [ project_id |-> p, status |-> "skipped",
                     reason |-> "Deadline already passed" ] ]
    ELSE LET deadline == table[p].deadline
             reminder_7d == deadline - 7 * 24
             reminder_3d == deadline - 3 * 24
             reminder_1d == deadline - 1 * 24
             reminder_4h == deadline - 4
             job(kind, eta) == Message("send_project_deadline_reminder", p,
                                       kind, NoText, eta, 0)
             q1 == IF reminder_7d > clock
                   THEN Enqueue(q, job("due_soon", reminder_7d)) ELSE q
             q2 == IF reminder_3d > clock
                   THEN Enqueue(q1, job("due_soon", reminder_3d)) ELSE q1
             q3 == IF reminder_1d > clock
                   THEN Enqueue(q2, job("due_soon", reminder_1d)) ELSE q2
             q4 == IF reminder_4h > clock
                   THEN Enqueue(q3, job("final_reminder", reminder_4h)) ELSE q3
         IN  [ queue |-> q4,
               ret |-> [ project_id |-> p, status |-> "scheduled",
                         reminders_scheduled |-> QueueSize(q4) - QueueSize(q),
                         deadline |-> deadline ] ]

\* DeadlineService.cancel_project_reminders(project_id): a placeholder
\* that revokes nothing
cancel_project_reminders(p, q) ==
    [ queue |-> q, ret |-> [ project_id |-> p, status |-> "cancelled" ] ]

\* DeadlineService.reschedule_project_reminders(project_id)
reschedule_project_reminders(table, p, clock, q) ==
    LET cancelled == cancel_project_reminders(p, q)
        scheduled == schedule_project_reminders(table, p, clock,
                                               cancelled.queue)
    IN  [ queue |-> scheduled.queue,
          ret |-> [ project_id |-> p, status |-> "rescheduled",
                    cancel_result |-> cancelled.ret,
                    schedule_result |-> scheduled.ret ] ]

\* A caller invokes DeadlineService.schedule_project_reminders
ScheduleProjectReminders(p) ==
    LET done == schedule_project_reminders(projects, p, now, queue)
    IN  /\ QueueSize(done.queue) <= MaxQueue
        /\ queue' = done.queue
        /\ result' = [ op |-> "schedule_project_reminders", ret |-> done.ret,
                       deadline |-> projects[p].deadline, timestamp |-> now ]
        /\ UNCHANGED <<now, tasks, projects, notifications>>

\* A caller invokes DeadlineService.cancel_project_reminders
CancelProjectReminders(p) ==
    LET done == cancel_project_reminders(p, queue)
    IN  /\ queue' = done.queue
        /\ result' = [ op |-> "cancel_project_reminders", ret |-> done.ret,
                       deadline |-> projects[p].deadline, timestamp |-> now ]
        /\ UNCHANGED <<now, tasks, projects, notifications>>

\* A caller invokes DeadlineService.reschedule_project_reminders
RescheduleProjectReminders(p) ==
    LET done == reschedule_project_reminders(projects, p, now, queue)
    IN  /\ QueueSize(done.queue) <= MaxQueue
        /\ queue' = done.queue
        /\ result' = [ op |-> "reschedule_project_reminders", ret |-> done.ret,
                       deadline |-> projects[p].deadline, timestamp |-> now ]
        /\ UNCHANGED <<now, tasks, projects, notifications>>

\* ProjectService.create_project with a deadline (or none)
CreateProject(p, deadline) ==
    /\ ~projects[p].exists
    /\ projects' = [projects EXCEPT ![p] = NewProject(deadline)]
    /\ LET done == IF deadline # NoDate
                   THEN schedule_project_reminders(projects', p, now, queue)
                   ELSE [ queue |-> queue, ret |-> [ status |-> "none" ] ]
       IN  /\ QueueSize(done.queue) <= MaxQueue
           /\ queue' = done.queue
           /\ result' = [ op |-> "create_project", ret |-> done.ret,
                          deadline |-> deadline, timestamp |-> now ]
    /\ UNCHANGED <<now, tasks, notifications>>

\* ProjectService.update_project with a 'deadline' entry, by a member
\* allowed to edit
UpdateProject(p, deadline) ==
    /\ projects[p].exists
    /\ LET deadline_changed == projects[p].deadline # deadline
           done == IF ~deadline_changed
                   THEN [ queue |-> queue, ret |-> [ status |-> "none" ] ]
                   ELSE IF deadline # NoDate
                   THEN reschedule_project_reminders(projects', p, now, queue)
                   ELSE cancel_project_reminders(p, queue)
       IN  /\ projects' = [projects EXCEPT ![p].deadline = deadline]
           /\ QueueSize(done.queue) <= MaxQueue
           /\ queue' = done.queue
           /\ result' = [ op |-> "update_project", ret |-> done.ret,
                          deadline |-> deadline, timestamp |-> now ]
    /\ UNCHANGED <<now, tasks, notifications>>

-----------------------------------------------------------------------------
(* The reminder scheduler: deadline changes and the jobs they submit       *)

InitSched ==
    /\ now = 0
    /\ tasks \in [Tasks -> { NewTask(t, 1, due, 0) :
                               t \in Tasks, due \in TaskDueDates }]
    /\ \A t \in Tasks : tasks[t].title = title_of(t)
    /\ projects = [p \in Projects |-> NoProject]
    /\ notifications = <<>>
    /\ queue = EmptyBag
    /\ result = NoResult

NextSched ==
    \/ \E d \in Steps : Tick(d)
    \/ \E t \in Tasks : UpdateTaskProgress(t, 100)
    \/ \E t \in Tasks, due \in TaskDueDates : UpdateTaskDirect(t, due)
    \/ \E m \in BagToSet(queue) : UpdateTaskPriorityReminders(m)
    \/ \E m \in BagToSet(queue) : ScheduleTaskReminder(m)
    \/ \E m \in BagToSet(queue), email_ok \in BOOLEAN :
          SendDeadlineReminder(m, email_ok)

SpecSched == InitSched /\ [][NextSched]_vars

-----------------------------------------------------------------------------
(* DeadlineService's scheduling entry points: the project service's calls  *)
(* on creation and deadline changes, and the methods called on their own   *)

NextService ==
    \/ \E d \in Steps : Tick(d)
    \/ \E p \in Projects, deadline \in ProjectDeadlines : CreateProject(p, deadline)
    \/ \E p \in Projects, deadline \in ProjectDeadlines : UpdateProject(p, deadline)
    \/ \E p \in Projects : ScheduleProjectReminders(p)
    \/ \E p \in Projects : CancelProjectReminders(p)
    \/ \E p \in Projects : RescheduleProjectReminders(p)
    \/ \E t \in Tasks : ScheduleStandardReminders(t)

InitService ==
    /\ now = 0
    /\ tasks \in [Tasks -> { NewTask(t, 1, due, 0) :
                               t \in Tasks, due \in TaskDueDates }]
    /\ \A t \in Tasks : tasks[t].title = title_of(t)
    /\ projects = [p \in Projects |-> NoProject]
    /\ notifications = <<>>
    /\ queue = EmptyBag
    /\ result = NoResult

SpecService == InitService /\ [][NextService]_vars

-----------------------------------------------------------------------------
(* Risk assessment of arbitrary Task rows                                  *)

\* Clock readings, due dates and percentages the rows are drawn from
RiskClocks == {0, 24, 240}

RiskDueDates ==
    {NoDate, 12, 230, 288, 384, 407, 408, 431, 432, 456, 479, 480}

RiskPercents == {0, 10, 50, 100}

\* Task.created_at of the rows: NULL, or the origin of the clock
RiskCreated == {NoDate, 0}

\* The RiskAssessment of a task, as get_tasks_at_risk computes it with
\* calculate_completion_velocity, predict_completion_date, is_at_risk and
\* get_risk_level
EvaluateRisk(t) ==
    /\ result' = [ op |-> "evaluate_risk", task |-> tasks[t], clock |-> now,
                   completion_velocity |->
                       calculate_completion_velocity(tasks[t], now),
                   predicted_completion |->
                       predict_completion_date(tasks[t], now),
                   at_risk |-> is_at_risk(tasks[t], now),
                   risk_level |-> get_risk_level(tasks[t], now) ]
    /\ UNCHANGED <<now, tasks, projects, notifications, queue>>

InitRisk ==
    /\ now \in RiskClocks
    /\ tasks \in [Tasks ->
          { [ NewTask(t, 1, due, created)
                EXCEPT !.percent_complete = percent, !.status = status ] :
              t \in Tasks, due \in RiskDueDates, percent \in RiskPercents,
              status \in Statuses, created \in RiskCreated }]
    /\ \A t \in Tasks : tasks[t].title = title_of(t)
    /\ projects = [p \in Projects |-> NoProject]
    /\ notifications = <<>>
    /\ queue = EmptyBag
    /\ result = NoResult

NextRisk ==
    \/ \E t \in Tasks : EvaluateRisk(t)
    \/ \E t \in Tasks, percent \in ProgressInputs : UpdateTaskProgress(t, percent)

SpecRisk == InitRisk /\ [][NextRisk]_vars

-----------------------------------------------------------------------------
(* PriorityScorer: services/priority_service.py, pure functions of a Task  *)
(* row and the clock.  Scores are in tenths of a point.                    *)

\* PriorityService.calculate_urgency_score(due_date)
calculate_urgency_score(due_date, clock) ==
    IF due_date = NoDate THEN 0
    ELSE LET time_diff == due_date - clock
             days_remaining == time_diff \div HoursPerDay
         IN  IF time_diff <= 0 THEN 100
             ELSE IF days_remaining <= 1 THEN 90
             ELSE IF days_remaining <= 3 THEN 70
             ELSE IF days_remaining <= 7 THEN 50
             ELSE IF days_remaining <= 14 THEN 30
             ELSE IF days_remaining <= 30 THEN 10
             ELSE 5

\* PriorityService.calculate_effort_score(estimated_effort)
calculate_effort_score(estimated_effort) ==
    IF estimated_effort <= 0 THEN 0
    ELSE IF estimated_effort <= 2 THEN 0
    ELSE IF estimated_effort <= 8 THEN -5
    ELSE IF estimated_effort <= 24 THEN -10
    ELSE -20

\* PriorityService.calculate_dependency_score(task)
calculate_dependency_score(task) ==
    LET subtask_count == task.subtasks
    IN  IF subtask_count > 0
        THEN IF subtask_count * 15 < 50 THEN subtask_count * 15 ELSE 50
        ELSE IF task.parent_task_id # NoParent THEN -5
        ELSE 0

\* PriorityService.calculate_status_modifier(status)
calculate_status_modifier(status) ==
    IF status = "in_progress" THEN 20
    ELSE IF status = "pending" THEN 0
    ELSE -100

\* compute_priority_score without its floor at 0
compute_priority_score_unfloored(task, clock) ==
    LET urgency == calculate_urgency_score(task.due_date, clock)
        effort == calculate_effort_score(task.estimated_effort)
        dependency == calculate_dependency_score(task)
        status_mod == calculate_status_modifier(task.status)
        priority_score == urgency + effort + dependency + status_mod
    IN  IF task.percent_complete = 0 /\ task.status = "in_progress"
        THEN priority_score - 10
        ELSE priority_score

\* PriorityService.compute_priority_score(task)
compute_priority_score(task, clock) ==
    LET urgency == calculate_urgency_score(task.due_date, clock)
        effort == calculate_effort_score(task.estimated_effort)
        dependency == calculate_dependency_score(task)
        status_mod == calculate_status_modifier(task.status)
        priority_score == urgency + effort + dependency + status_mod
        penalised == IF task.percent_complete = 0 /\ task.status = "in_progress"
                     THEN priority_score - 10
                     ELSE priority_score
    IN  IF penalised > 0 THEN penalised ELSE 0

\* Clock readings and column values the scored rows are drawn from
PriorityClocks == {0, 24}

PriorityDueDates ==
    {NoDate, 0, 12, 24, 47, 48, 72, 95, 96, 120, 191, 192, 216, 359, 360,
     384, 743, 744, 768, 1440, 1464}

Efforts == {0, 2, 4, 8, 24, 30, 50}

SubtaskCounts == {0, 1, 3, 4}

ParentTasks == {NoParent, 5}

PriorityPercents == {0, 50, 100}

\* A caller scores a task: compute_priority_score and the terms it adds
EvaluatePriority(t) ==
    /\ result' = [ op |-> "compute_priority_score", task |-> tasks[t],
                   clock |-> now,
                   urgency |-> calculate_urgency_score(tasks[t].due_date, now),
                   effort |->
                       calculate_effort_score(tasks[t].estimated_effort),
                   dependency |-> calculate_dependency_score(tasks[t]),
                   status_mod |-> calculate_status_modifier(tasks[t].status),
                   priority_score |-> compute_priority_score(tasks[t], now) ]
    /\ UNCHANGED <<now, tasks, projects, notifications, queue>>

InitPriority ==
    /\ now \in PriorityClocks
    /\ tasks \in [Tasks ->
          { [ NewTask(t, 1, due, 0)
                EXCEPT !.percent_complete = percent, !.status = status,
                       !.estimated_effort = effort, !.subtasks = subtasks,
                       !.parent_task_id = parent ] :
              t \in Tasks, due \in PriorityDueDates,
              percent \in PriorityPercents, status \in Statuses,
              effort \in Efforts, subtasks \in SubtaskCounts,
              parent \in ParentTasks }]
    /\ \A t \in Tasks : tasks[t].title = title_of(t)
    /\ projects = [p \in Projects |-> NoProject]
    /\ notifications = <<>>
    /\ queue = EmptyBag
    /\ result = NoResult

NextPriority == \E t \in Tasks : EvaluatePriority(t)

SpecPriority == InitPriority /\ [][NextPriority]_vars

-----------------------------------------------------------------------------
(* The sweeps: GET /tasks/at_risk, scan_and_notify for one user and the    *)
(* hourly job scheduled_deadline_monitoring over all users                 *)

SweepTasks == {1, 2}

\* Due dates the second task may be created with
SweepDueDates == {NoDate, 12}

\* percent_complete values sent to PUT /tasks/<id>/progress in the sweeps
SweepProgress == {50, 100}

\* What may happen while scan_and_notify runs for one user inside the
\* hourly job: nothing, an exception that leaves the database session
\* alone, or a database error raised by one of its statements
FailureKinds == {"none", "python", "database"}

\* The orders in which User.query.all(), which has no ORDER BY, may
\* return the users
UserOrders ==
    { order \in [1..Cardinality(Users) -> Users] :
        \A i, j \in DOMAIN order : i # j => order[i] # order[j] }

\* DeadlineService.get_tasks_at_risk(user_id), behind GET /tasks/at_risk
GetTasksAtRisk(user) ==
    /\ result' = [ op |-> "get_tasks_at_risk", user_id |-> user,
                   at_risk_tasks |-> get_tasks_at_risk(tasks, user, now) ]
    /\ UNCHANGED <<now, tasks, projects, notifications, queue>>

\* The loop of scheduled_deadline_monitoring over users[i..].  All sweeps
\* of one pass share the app context's database session: acc.session_ok
\* tells whether its transaction is still valid.  A database error
\* invalidates it until db.session.rollback(), which neither the job nor
\* scan_and_notify calls, so every later statement of the pass raises and
\* the except clause of the loop prints and goes on.
RECURSIVE monitoring_loop(_, _, _, _, _)
monitoring_loop(users, i, clock, failure, acc) ==
    IF i > Len(users) THEN acc
    ELSE LET user == users[i]
         IN  IF ~acc.session_ok \/ failure[user] # "none"
             THEN monitoring_loop(users, i + 1, clock, failure,
                    [acc EXCEPT
                       !.session_ok = acc.session_ok
                                        /\ failure[user] # "database",
                       !.errors = acc.errors \cup {user}])
             ELSE LET at_risk_tasks ==
                          get_tasks_at_risk(tasks, user, clock)
                      done == scan_loop(at_risk_tasks, 1, user, clock,
                                 TRUE,
                                 [ table |-> acc.table,
                                   notifications_created |-> 0,
                                   emails_sent |-> 0 ])
                  IN  monitoring_loop(users, i + 1, clock, failure,
                         [acc EXCEPT
                            !.table = done.table,
                            !.total_notifications =
                                acc.total_notifications
                                  + done.notifications_created])

\* app.py scheduled_deadline_monitoring(), the hourly APScheduler job.  It
\* reads only notifications_created from each summary, so whether
\* send_email succeeds has no effect on it.
ScheduledDeadlineMonitoring(order, failure) ==
    LET done == monitoring_loop(order, 1, now, failure,
                   [ table |-> notifications, session_ok |-> TRUE,
                     total_notifications |-> 0, errors |-> {} ])
    IN  /\ Len(done.table) <= MaxNotifications
        /\ notifications' = done.table
        /\ result' = [ op |-> "scheduled_deadline_monitoring",
                       total_notifications |-> done.total_notifications,
                       errors |-> done.errors ]
        /\ UNCHANGED <<now, tasks, projects, queue>>

InitSweep ==
    /\ now = 0
    /\ \E owner \in Users, due \in SweepDueDates :
          tasks = [t \in SweepTasks |->
                     IF t = 1 THEN NewTask(t, 1, 36, 0)
                     ELSE NewTask(t, owner, due, 0)]
    /\ projects = [p \in Projects |-> NoProject]
    /\ notifications = <<>>
    /\ queue = EmptyBag
    /\ result = NoResult

NextSweep ==
    \/ \E d \in Steps : Tick(d)
    \/ \E t \in SweepTasks, percent \in SweepProgress :
          UpdateTaskProgress(t, percent)
    \/ \E u \in Users : GetTasksAtRisk(u)
    \/ \E u \in Users \cup UnknownUsers, email_ok \in BOOLEAN :
          ScanAndNotify(u, email_ok)
    \/ \E order \in UserOrders, failure \in [Users -> FailureKinds] :
          ScheduledDeadlineMonitoring(order, failure)

SpecSweep == InitSweep /\ [][NextSweep]_vars

-----------------------------------------------------------------------------
(* Progress tracking: update_task_progress with its timestamp column       *)

\* models/task.py: a Task row with last_progress_update, whose default is
\* the time of the insert
NewTrackedTask(t, owner, due, clock) ==
    [ x \in DOMAIN NewTask(t, owner, due, clock) \cup {"last_progress_update"}
        |-> IF x = "last_progress_update" THEN clock
            ELSE NewTask(t, owner, due, clock)[x] ]

InitProgress ==
    /\ now = 0
    /\ \E due \in TaskDueDates :
          tasks = [t \in Tasks |-> NewTrackedTask(t, 1, due, 0)]
    /\ projects = [p \in Projects |-> NoProject]
    /\ notifications = <<>>
    /\ queue = EmptyBag
    /\ result = NoResult

NextProgress ==
    \/ \E d \in Steps : Tick(d)
    \/ \E t \in Tasks \cup UnknownTasks, percent \in ProgressInputs :
          UpdateTaskProgress(t, percent)

SpecProgress == InitProgress /\ [][NextProgress]_vars

-----------------------------------------------------------------------------
(* Email delivery: the sweep and the reminder jobs of one user with two    *)
(* tasks, send_email failing or not                                        *)

InitEmail ==
    /\ now = 0
    /\ \E due \in TaskDueDates \ {NoDate} :
          tasks = [t \in SweepTasks |->
                     IF t = 1 THEN NewTask(t, 1, 36, 0)
                     ELSE NewTask(t, 1, due, 0)]
    /\ projects = [p \in Projects |-> NoProject]
    /\ notifications = <<>>
    /\ queue = EmptyBag
    /\ result = NoResult

NextEmail ==
    \/ \E d \in Steps : Tick(d)
    \/ \E email_ok \in BOOLEAN : ScanAndNotify(1, email_ok)
    \/ CheckAndScheduleReminders
    \/ \E m \in BagToSet(queue), email_ok \in BOOLEAN :
          SendDeadlineReminder(m, email_ok)

SpecEmail == InitEmail /\ [][NextEmail]_vars

-----------------------------------------------------------------------------
(* Errors while one task of a sweep is processed                           *)

\* scan_and_notify(user_id) during which a statement of the loop raises
\* for at_risk_tasks[k] (its dedup query, say).  Nothing in the loop
\* catches it: the exception leaves scan_and_notify before
\* db.session.commit(), and the rows added for the tasks before k go with
\* the session when the caller's context ends.
ScanAndNotifyRaising(user, k) ==
    LET at_risk_tasks == get_tasks_at_risk(tasks, user, now)
        before == scan_loop(SubSeq(at_risk_tasks, 1, k - 1), 1, user, now,
                     TRUE, [ table |-> notifications,
                             notifications_created |-> 0,
                             emails_sent |-> 0 ])
    IN  /\ user \in Users
        /\ k \in DOMAIN at_risk_tasks
        /\ Len(before.table) <= MaxNotifications
        /\ notifications' = notifications
        /\ result' = [ op |-> "scan_and_notify", user_id |-> user,
                       raised |-> TRUE, task_id |-> at_risk_tasks[k].id,
                       added_before |-> before.notifications_created ]
        /\ UNCHANGED <<now, tasks, projects, queue>>

NextItemError ==
    \/ \E d \in Steps : Tick(d)
    \/ \E t \in SweepTasks : UpdateTaskProgress(t, 100)
    \/ \E email_ok \in BOOLEAN : ScanAndNotify(1, email_ok)
    \/ \E k \in 1..Cardinality(SweepTasks) : ScanAndNotifyRaising(1, k)

SpecItemError == InitEmail /\ [][NextItemError]_vars

-----------------------------------------------------------------------------
(* Reminder jobs at fire time: the task may have been completed, given a   *)
(* new status or owner, or deleted since the job was dispatched, and the   *)
(* broker may deliver a job again                                          *)

\* The owner PUT /tasks/<id> sets: an id no User row has
TaskOwners == UnknownUsers

\* PUT /tasks/<id>/status (and the status field of PUT /tasks/<id>):
\* update_task_status writes task.status_id and nothing else
UpdateTaskStatus(t, status) ==
    /\ t \in DOMAIN tasks
    /\ tasks' = [tasks EXCEPT ![t].status_id = status]
    /\ result' = [ op |-> "update_task_status", task_id |-> t,
                   status |-> status ]
    /\ UNCHANGED <<now, projects, notifications, queue>>

\* PUT /tasks/<id> with owner_id: update_task_direct stores it unchecked
UpdateTaskOwner(t, owner) ==
    /\ t \in DOMAIN tasks
    /\ tasks' = [tasks EXCEPT ![t].owner_id = owner]
    /\ result' = [ op |-> "update_task_direct", task_id |-> t,
                   due_date_changed |-> FALSE ]
    /\ UNCHANGED <<now, projects, notifications, queue>>

\* DELETE /tasks/<id>: delete_task_direct
DeleteTaskDirect(t) ==
    /\ t \in DOMAIN tasks
    /\ tasks' = [x \in DOMAIN tasks \ {t} |-> tasks[x]]
    /\ result' = [ op |-> "delete_task_direct", task_id |-> t ]
    /\ UNCHANGED <<now, projects, notifications, queue>>

\* A message as the broker delivers it again: delivery_info.redelivered
Redelivered(m) ==
    [ x \in DOMAIN m \cup {"redelivered"} |->
        IF x = "redelivered" THEN TRUE ELSE m[x] ]

\* A worker runs send_deadline_reminder to its end, commit included, but
\* with task_acks_late the acknowledgement is sent only afterwards and
\* never reaches the broker (the worker is killed, the connection drops
\* or the visibility timeout has passed): the broker delivers the
\* message again
SendDeadlineReminderUnacked(m, email_ok) ==
    /\ m \in BagToSet(queue)
    /\ m.name = "send_deadline_reminder"
    /\ m.eta <= now
    /\ "redelivered" \notin DOMAIN m
    /\ m.id \in DOMAIN tasks
    /\ LET task == tasks[m.id]
           sent == /\ task.owner_id \in Users
                   /\ still_relevant(task)
       IN  /\ task.due_date # NoDate
           /\ sent => Len(notifications) < MaxNotifications
           /\ notifications' =
                IF sent
                THEN Append(notifications,
                       NewNotification(task.owner_id,
                           reminder_template(m.reminder_type),
                           task.title, now))
                ELSE notifications
           /\ queue' = Enqueue(Dequeue(queue, m), Redelivered(m))
           /\ result' = [ op |-> "send_deadline_reminder",
                          task_id |-> m.id, outcome |-> "unacked",
                          email_sent |-> sent /\ email_ok ]
           /\ UNCHANGED <<now, tasks, projects>>

InitFire ==
    /\ now = 0
    /\ tasks = [t \in Tasks |-> NewTask(t, 1, 12, 0)]
    /\ projects = [p \in Projects |-> NoProject]
    /\ notifications = <<>>
    /\ queue = EmptyBag
    /\ result = NoResult

NextFire ==
    \/ \E d \in Steps : Tick(d)
    \/ \E t \in Tasks : UpdateTaskProgress(t, 100)
    \/ \E t \in Tasks : UpdateTaskStatus(t, "completed")
    \/ \E t \in Tasks, owner \in TaskOwners : UpdateTaskOwner(t, owner)
    \/ \E t \in Tasks : DeleteTaskDirect(t)
    \/ ScanAndNotify(1, TRUE)
    \/ CheckAndScheduleReminders
    \/ \E m \in BagToSet(queue), email_ok \in BOOLEAN :
          SendDeadlineReminder(m, email_ok)
    \/ \E m \in BagToSet(queue) : SendDeadlineReminderUnacked(m, TRUE)

SpecFire == InitFire /\ [][NextFire]_vars

-----------------------------------------------------------------------------
(* Two sweeps of one user that overlap                                     *)

\* A commit under a unique constraint on (user_id, message): the rows
\* that repeat one already in the table are refused
session_commit_rejecting_duplicates(table, added) ==
    table \o SelectSeq(added, LAMBDA n :
                 ~ \E i \in 1..Len(table) :
                       /\ table[i].user_id = n.user_id
                       /\ table[i].template = n.template
                       /\ table[i].title = n.title)

\* db.session.commit() of the Notification rows a session has added: the
\* table has an autoincrement id and no unique constraint, every row is
\* inserted
session_commit(table, added) == table \o added

\* Two invocations of scan_and_notify(user_id) in two sessions (the hourly
\* job's thread and a request of trigger_reminder_check, or two requests):
\* each runs its loop, dedup queries included, before the other commits,
\* so each sees the committed table and its own rows only; then both
\* commit
OverlappingScanAndNotify(user, first_email_ok, second_email_ok) ==
    LET at_risk_tasks == get_tasks_at_risk(tasks, user, now)
        start == [ table |-> notifications,
                   notifications_created |-> 0,
                   emails_sent |-> 0 ]
        first == scan_loop(at_risk_tasks, 1, user, now, first_email_ok,
                           start)
        second == scan_loop(at_risk_tasks, 1, user, now, second_email_ok,
                            start)
        added(done) == SubSeq(done.table, Len(notifications) + 1,
                              Len(done.table))
        summary(done) ==
            [ user_id |-> user,
              at_risk_tasks_count |-> Len(at_risk_tasks),
              notifications_created |-> done.notifications_created,
              emails_sent |-> done.emails_sent,
              timestamp |-> now ]
        committed == session_commit(
                        session_commit(notifications, added(first)),
                        added(second))
    IN  /\ user \in Users
        /\ Len(notifications) + Len(added(first)) + Len(added(second))
             <= MaxNotifications
        /\ notifications' = committed
        /\ result' = [ op |-> "overlapping_scan_and_notify",
                       first |-> summary(first),
                       second |-> summary(second) ]
        /\ UNCHANGED <<now, tasks, projects, queue>>

InitOverlap ==
    /\ now = 0
    /\ \E due \in TaskDueDates :
          tasks = [t \in Tasks |-> NewTask(t, 1, due, 0)]
    /\ projects = [p \in Projects |-> NoProject]
    /\ notifications = <<>>
    /\ queue = EmptyBag
    /\ result = NoResult

NextOverlap ==
    \/ \E d \in Steps : Tick(d)
    \/ \E t \in Tasks, percent \in ProgressInputs :
          UpdateTaskProgress(t, percent)
    \/ \E email_ok \in BOOLEAN : ScanAndNotify(1, email_ok)
    \/ \E first_email_ok, second_email_ok \in BOOLEAN :
          OverlappingScanAndNotify(1, first_email_ok, second_email_ok)

SpecOverlap == InitOverlap /\ [][NextOverlap]_vars

-----------------------------------------------------------------------------
(* Properties                                                              *)

Evaluated == result.op = "evaluate_risk"

\* Whole days by which the assessed completion exceeds the due date
WholeDaysLate ==
    (result.predicted_completion.num
        - result.task.due_date * result.predicted_completion.den)
      \div (result.predicted_completion.den * HoursPerDay)

\* C8: an item whose status is completed is assessed as not at risk and of
\* tier low, whatever its due date, creation time and percentage
C8_CompletedNotAtRisk ==
    (Evaluated /\ result.task.status = "completed")
        => (~result.at_risk /\ result.risk_level = "low")

\* A completed item with unfinished progress and a due date already past
C8_Witness ==
    /\ Evaluated
    /\ result.task.status = "completed"
    /\ result.task.percent_complete < 100
    /\ result.task.due_date # NoDate
    /\ result.task.due_date < result.clock

C10_RiskTier ==
    Evaluated =>
        /\ (~result.at_risk \/ result.task.due_date = NoDate)
              => result.risk_level = "low"
        /\ (result.at_risk /\ result.task.due_date # NoDate)
              => /\ result.risk_level = "medium" <=> WholeDaysLate <= 1
                 /\ result.risk_level = "high"
                       <=> (WholeDaysLate > 1 /\ WholeDaysLate <= 3)
                 /\ result.risk_level = "critical" <=> WholeDaysLate > 3
        /\ \A due \in RiskDueDates \ {NoDate} :
              (result.task.due_date # NoDate /\ due <= result.task.due_date)
                 => risk_order(get_risk_level(
                        [result.task EXCEPT !.due_date = due], result.clock))
                       >= risk_order(result.risk_level)

\* An item exactly 3 whole days late, the last step of tier high
C10_Witness ==
    /\ Evaluated
    /\ result.at_risk
    /\ WholeDaysLate = 3
    /\ result.risk_level = "high"

\* The rows of the Notification table that carry the signature of a title
\* for a user
RowsFor(user, title) ==
    { i \in 1..Len(notifications) :
        /\ notifications[i].user_id = user
        /\ message_contains(notifications[i], title) }

\* C1: no two Notification rows of one recipient that contain the same
\* signature "Task '<title>'" are created less than 24 hours apart
C1_NoDuplicateWithinCooldown ==
    \A u \in Users, t \in Tasks :
        \A i, j \in RowsFor(u, title_of(t)) :
            i < j => notifications[j].created_at - notifications[i].created_at
                        >= CooldownHours

\* A sweep of user u is the step being taken
IsSweep(u) == \E email_ok \in BOOLEAN : ScanAndNotify(u, email_ok)

\* The last handler that returned was a completed sweep of user u
SweptLast(u) ==
    /\ result.op = "scan_and_notify"
    /\ result.user_id = u
    /\ "timestamp" \in DOMAIN result

\* C2: a sweep that follows a sweep of the same recipient by less than 24
\* hours, the tasks unchanged, creates no row for a task the first sweep
\* notified, and reports notifications_created = 0 when the first sweep
\* notified every task at risk
C2_SecondSweepCreatesNone ==
    [][ \A u \in Users :
          (SweptLast(u) /\ now - result.timestamp < CooldownHours /\ IsSweep(u))
            => /\ \A t \in Tasks :
                    (\E i \in RowsFor(u, title_of(t)) :
                        notifications[i].created_at = result.timestamp)
                      => \A j \in (Len(notifications) + 1)..Len(notifications') :
                            ~message_contains(notifications'[j], title_of(t))
               /\ (result.notifications_created >= 1
                   /\ result.notifications_created = result.at_risk_tasks_count
                   /\ Cardinality(Tasks) = 1)
                      => (result'.notifications_created = 0
                          /\ notifications' = notifications) ]_vars

\* The second of two sweeps 12 hours apart found the row of the first and
\* created nothing for the task still at risk
C2_Witness ==
    /\ SweptLast(1)
    /\ result.at_risk_tasks_count = 1
    /\ result.notifications_created = 0
    /\ Len(notifications) = 1
    /\ notifications[1].template \in {"critical", "high_risk", "warning"}
    /\ notifications[1].created_at < result.timestamp
    /\ result.timestamp - notifications[1].created_at < CooldownHours

-----------------------------------------------------------------------------
(* Properties of the reminder scheduler                                    *)

\* The pending reminder jobs of task t in a queue: the messages that will
\* end in send_deadline_reminder(t)
PendingReminders(t, q) ==
    LET jobs == { m \in BagToSet(q) :
                    /\ m.id = t
                    /\ m.name \in {"schedule_task_reminder",
                                   "send_deadline_reminder"} }
    IN  [ m \in jobs |-> CopiesIn(m, q) ]

\* The time at which a pending reminder job is to fire; Asap for a job
\* without a set time
FireTime(m) ==
    IF m.name = "schedule_task_reminder" THEN fromisoformat(m.reminder_time)
    ELSE m.eta

\* Every lead offset a task-level schedule call can use, in hours
TaskOffsets ==
    UNION { { reminder_intervals(score)[i] :
                i \in DOMAIN reminder_intervals(score) } :
            score \in {0, 5 * ScoreScale, 8 * ScoreScale} }

\* The last handler that returned was update_task_priority_reminders for
\* task t at its current deadline and priority
RescheduledLast(t) ==
    /\ result.op = "update_task_priority_reminders"
    /\ result.task_id = t
    /\ result.due_date = tasks[t].due_date
    /\ result.priority_score = tasks[t].priority_score

\* C3: update_task_priority_reminders called a second time for a task, with
\* the deadline, the priority and the time of the first call, leaves the
\* pending reminder jobs of the task as the first call left them
C3_ScheduleTwiceSameJobs ==
    [][ \A m \in BagToSet(queue) :
          (/\ UpdateTaskPriorityReminders(m)
           /\ RescheduledLast(m.id)
           /\ result.timestamp = now)
            => PendingReminders(m.id, queue') = PendingReminders(m.id, queue)
      ]_vars

\* C4: once update_task_priority_reminders has run for the current
\* deadline of a task, every pending reminder job of the task with a set
\* fire time fires at the current deadline minus a lead offset
C4_NoStaleJobs ==
    \A t \in Tasks :
        (RescheduledLast(t) /\ tasks[t].due_date # NoDate)
          => \A m \in DOMAIN PendingReminders(t, queue) :
                FireTime(m) # Asap
                  => \E o \in TaskOffsets : FireTime(m) = tasks[t].due_date - o

\* C6: the cancel step of a reschedule revokes every reminder job of the
\* entity submitted before it: after update_task_priority_reminders the
\* pending reminder jobs of the task are the ones this call submitted
C6_CancelRevokesPending ==
    [][ \A m \in BagToSet(queue) :
          (/\ UpdateTaskPriorityReminders(m)
           /\ tasks[m.id].status # "completed")
            => PendingReminders(m.id, queue')
                 = PendingReminders(m.id,
                     IF tasks[m.id].due_date = NoDate THEN EmptyBag
                     ELSE submit_intervals(
                            reminder_intervals(tasks[m.id].priority_score),
                            1, m.id, tasks[m.id].due_date, now, EmptyBag))
      ]_vars

\* C5: a reschedule of a project with a deadline that reports status
\* 'rescheduled' has a cancel step
\* that cancelled and a schedule step that scheduled
C5_RescheduledMeansBoth ==
    (/\ result.op \in {"reschedule_project_reminders", "update_project"}
     /\ result.deadline # NoDate
     /\ result.ret.status = "rescheduled")
      => /\ result.ret.cancel_result.status = "cancelled"
         /\ result.ret.schedule_result.status = "scheduled"

\* The lead offsets of a project-level schedule call, in hours, and the
\* kind of reminder each one submits
ProjectOffsets == {7 * 24, 3 * 24, 1 * 24, 4}

ProjectJob(p, deadline, o) ==
    Message("send_project_deadline_reminder", p,
            IF o = 4 THEN "final_reminder" ELSE "due_soon",
            NoText, deadline - o, 0)

\* The lead offsets of schedule_standard_reminders, in hours
StandardOffsets == {24, 1}

StandardJob(t, due_date, o) ==
    Message("schedule_task_reminder", t, "", isoformat(due_date - o), Asap, 0)

\* schedule_standard_reminders for a task with a due date submits one job
\* per lead offset whose fire time is later than now and reports their
\* number
StandardSubmitIffFuture ==
    \A t \in Tasks :
        (ScheduleStandardReminders(t) /\ tasks[t].due_date # NoDate)
          => LET due_date == tasks[t].due_date
                 future == { o \in StandardOffsets : due_date - o > now }
             IN  /\ \A o \in StandardOffsets :
                        CopiesIn(StandardJob(t, due_date, o), queue')
                          - CopiesIn(StandardJob(t, due_date, o), queue)
                            = IF o \in future THEN 1 ELSE 0
                 /\ result'.status = "scheduled"
                 /\ result'.reminders_scheduled = Cardinality(future)

\* C7: a schedule call for a task or a project with a deadline submits,
\* for every lead offset, one job if the deadline minus the offset is later
\* than now and none otherwise, reports no error, and reports as
\* reminders_scheduled the number of jobs it submitted
C7_SubmitIffFuture ==
    [][ /\ StandardSubmitIffFuture
        /\ \A p \in Projects :
          (/\ ScheduleProjectReminders(p)
           /\ projects[p].exists
           /\ projects[p].deadline # NoDate)
            => LET deadline == projects[p].deadline
                   future == { o \in ProjectOffsets : deadline - o > now }
               IN  /\ \A o \in ProjectOffsets :
                          CopiesIn(ProjectJob(p, deadline, o), queue')
                            - CopiesIn(ProjectJob(p, deadline, o), queue)
                              = IF o \in future THEN 1 ELSE 0
                   /\ result'.ret.status # "error"
                   /\ result'.ret.status = "scheduled"
                        => result'.ret.reminders_scheduled
                             = Cardinality(future)
      ]_vars

-----------------------------------------------------------------------------
(* Properties of the velocity predictor                                    *)

\* C11: the velocity is 0 when created_at is unset, percent_complete <= 0
\* or no time has elapsed since creation, and percent_complete per elapsed
\* day otherwise, never negative; the predicted completion is now + 365
\* days when the velocity is 0 below 100 percent, now at 100 percent, and
\* now + (100 - percent_complete) / velocity days otherwise; an item
\* created 10 days ago at 50 percent and due in 2 days has velocity 5, is
\* at risk and critical
C11_VelocityAndPrediction ==
    Evaluated =>
        LET task == result.task
            clock == result.clock
            v == result.completion_velocity
            p == result.predicted_completion
            no_progress == \/ task.created_at = NoDate
                           \/ task.percent_complete <= 0
                           \/ clock - task.created_at <= 0
        IN  /\ v.den > 0 /\ v.num >= 0 /\ p.den > 0
            /\ no_progress => v.num = 0
            /\ ~no_progress
                 => v.num * (clock - task.created_at)
                      = task.percent_complete * HoursPerDay * v.den
            /\ (v.num = 0 /\ task.percent_complete < 100)
                 => p.num = (clock + FarFutureDays * HoursPerDay) * p.den
            /\ task.percent_complete >= 100 => p.num = clock * p.den
            /\ (v.num > 0 /\ task.percent_complete < 100)
                 => p.num * v.num
                      = p.den * (clock * v.num
                                 + (100 - task.percent_complete)
                                     * HoursPerDay * v.den)
            /\ (/\ clock - task.created_at = 10 * HoursPerDay
                /\ task.percent_complete = 50
                /\ task.due_date = clock + 2 * HoursPerDay
                /\ task.status # "completed")
                 => /\ v.num = 5 * v.den
                    /\ result.at_risk
                    /\ result.risk_level = "critical"

\* The item created 10 days ago, at 50 percent and due in 2 days, assessed
C11_Witness ==
    /\ Evaluated
    /\ result.clock - result.task.created_at = 10 * HoursPerDay
    /\ result.task.created_at # NoDate
    /\ result.task.percent_complete = 50
    /\ result.task.due_date = result.clock + 2 * HoursPerDay
    /\ result.task.status = "in_progress"
    /\ result.risk_level = "critical"

-----------------------------------------------------------------------------
(* Properties of update_task_progress                                      *)

\* Every row at 100 percent is completed and no row strictly between 0 and
\* 100 percent is pending
ProgressConsistent(table) ==
    \A t \in DOMAIN table :
        /\ table[t].percent_complete = 100 => table[t].status = "completed"
        /\ (table[t].percent_complete > 0 /\ table[t].percent_complete < 100)
              => table[t].status # "pending"

\* C12: update_task_progress on an existing task leaves it completed when
\* the new percentage is 100 and in progress when the new percentage is
\* above 0 and below 100 and the task was pending; afterwards every task at
\* 100 percent is completed and no task between 0 and 100 percent is
\* pending; for an id that does not exist it returns False and changes
\* nothing
C12_ProgressStatus ==
    [][ /\ \A t \in DOMAIN tasks, percent \in ProgressInputs :
              UpdateTaskProgress(t, percent)
                => /\ result'.success
                   /\ clamp_percent(percent) = 100
                        => tasks'[t].status = "completed"
                   /\ (/\ clamp_percent(percent) > 0
                       /\ clamp_percent(percent) < 100
                       /\ tasks[t].status = "pending")
                        => tasks'[t].status = "in_progress"
        /\ \A t \in UnknownTasks, percent \in ProgressInputs :
              UpdateTaskProgress(t, percent)
                => /\ ~result'.success
                   /\ UNCHANGED <<now, tasks, projects, notifications, queue>>
        /\ ProgressConsistent(tasks')
      ]_vars

\* A task brought from pending at 0 percent to completed at 100 percent by
\* the update that just returned
C12_Witness ==
    /\ result.op = "update_task_progress"
    /\ result.success
    /\ result.percent_complete = 100
    /\ tasks[result.task_id].percent_complete = 100
    /\ tasks[result.task_id].status = "completed"

\* C13: update_task_progress succeeds on a percentage out of range, storing
\* 0 for a value below 0 and 100 for a value above 100, which completes the
\* task; the stored percent_complete is always within 0..100
C13_ProgressClamped ==
    [][ /\ \A t \in DOMAIN tasks, percent \in ProgressInputs :
              UpdateTaskProgress(t, percent)
                => /\ result'.success
                   /\ percent < 0 => tasks'[t].percent_complete = 0
                   /\ percent > 100
                        => /\ tasks'[t].percent_complete = 100
                           /\ tasks'[t].status = "completed"
        /\ \A t \in DOMAIN tasks :
              tasks'[t].percent_complete \in 0..100
      ]_vars

\* An update with 150 percent has returned and the task stands at 100
C13_Witness ==
    /\ result.op = "update_task_progress"
    /\ result.success
    /\ result.percent_complete > 100
    /\ tasks[result.task_id].percent_complete = 100
    /\ tasks[result.task_id].status = "completed"

-----------------------------------------------------------------------------
(* Properties of the priority scorer                                       *)

Scored == result.op = "compute_priority_score"

\* C15: the priority score is never negative; a completed task without due
\* date and with 50 hours of effort scores 0, and so does a pending task
\* with 30 hours of effort, no subtasks and due in 60 days
C15_ScoreNonNegative ==
    Scored =>
        /\ result.priority_score >= 0
        /\ (/\ result.task.status = "completed"
            /\ result.task.due_date = NoDate
            /\ result.task.estimated_effort = 50)
              => result.priority_score = 0
        /\ (/\ result.task.status = "pending"
            /\ result.task.due_date = result.clock + 60 * HoursPerDay
            /\ result.task.estimated_effort = 30
            /\ result.task.subtasks = 0)
              => result.priority_score = 0

\* A completed task whose terms add up to less than 0 has been scored
C15_Witness ==
    /\ Scored
    /\ result.task.status = "completed"
    /\ result.task.due_date = NoDate
    /\ result.task.estimated_effort = 50
    /\ result.urgency + result.effort + result.dependency + result.status_mod
          < 0
    /\ result.priority_score = 0

\* C16: a pending task at 0 percent without subtasks or parent, with 4
\* hours of effort and due exactly 3 days from now, scores 7.0, the effort
\* term being 0.0
C16_ScoreOfTestTask ==
    (/\ Scored
     /\ result.task.status = "pending"
     /\ result.task.percent_complete = 0
     /\ result.task.subtasks = 0
     /\ result.task.parent_task_id = NoParent
     /\ result.task.estimated_effort = 4
     /\ result.task.due_date = result.clock + 3 * HoursPerDay)
      => /\ result.urgency = 7 * ScoreScale
         /\ result.effort = 0
         /\ result.dependency = 0
         /\ result.status_mod = 0
         /\ result.priority_score = 7 * ScoreScale

\* The urgency the tiers assign to a due date read at a clock: overdue
\* means the clock is past the due date
UrgencyTier(due_date, clock) ==
    IF due_date = NoDate THEN 0
    ELSE IF clock > due_date THEN 10 * ScoreScale
    ELSE LET days == (due_date - clock) \div HoursPerDay
         IN  IF days <= 1 THEN 9 * ScoreScale
             ELSE IF days <= 3 THEN 7 * ScoreScale
             ELSE IF days <= 7 THEN 5 * ScoreScale
             ELSE IF days <= 14 THEN 3 * ScoreScale
             ELSE IF days <= 30 THEN 1 * ScoreScale
             ELSE 5

\* C17: the urgency is 0 without due date, 10 when now > due, and otherwise
\* 9, 7, 5, 3, 1 or 0.5 for at most 1, 3, 7, 14, 30 or more whole days
\* remaining; a later due date never has a higher urgency
C17_UrgencyTiers ==
    Scored =>
        /\ result.urgency = UrgencyTier(result.task.due_date, result.clock)
        /\ \A due \in PriorityDueDates \ {NoDate} :
              (result.task.due_date # NoDate /\ due >= result.task.due_date)
                => calculate_urgency_score(due, result.clock) <= result.urgency

-----------------------------------------------------------------------------
(* Properties of the reminder tiers                                        *)

\* The lead offsets update_task_priority_reminders uses for a score
OffsetsOf(score) ==
    { reminder_intervals(score)[i] : i \in DOMAIN reminder_intervals(score) }

\* C14: a task's lead offsets follow from its priority score alone, {7d,
\* 3d, 1d, 4h} from 8 points, {3d, 1d} from 5 points and {1d} below; a
\* schedule call for a project with a deadline ahead submits the jobs of
\* the offsets {7d, 3d, 1d, 4h} whose fire time is ahead, of kind due_soon
\* except the 4h job, which is of kind final_reminder
C14_OffsetsByPriority ==
    [][ /\ \A score \in 0..(12 * ScoreScale) :
              OffsetsOf(score)
                = IF score >= 8 * ScoreScale
                  THEN {7 * HoursPerDay, 3 * HoursPerDay, HoursPerDay, 4}
                  ELSE IF score >= 5 * ScoreScale
                  THEN {3 * HoursPerDay, HoursPerDay}
                  ELSE {HoursPerDay}
        /\ \A p \in Projects :
              (/\ ScheduleProjectReminders(p)
               /\ projects[p].exists
               /\ projects[p].deadline # NoDate
               /\ projects[p].deadline > now)
                => queue' = queue (+) SetToBag(
                      { ProjectJob(p, projects[p].deadline, o) :
                          o \in { x \in ProjectOffsets :
                                    projects[p].deadline - x > now } })
      ]_vars

-----------------------------------------------------------------------------
(* Properties of the sweeps                                                *)

\* The tasks a sweep of this user has to examine: owned by the user, not
\* completed, with a due date
Examined(u) ==
    { t \in DOMAIN tasks :
        /\ tasks[t].owner_id = u
        /\ tasks[t].status # "completed"
        /\ tasks[t].due_date # NoDate }

\* The Notification rows a step appended
CreatedRows == SubSeq(notifications', Len(notifications) + 1,
                      Len(notifications'))

\* C18: scan_and_notify(user) counts as at risk exactly the at-risk tasks
\* among those the user owns that are not completed and have a due date;
\* every Notification row it creates is the user's, for such a task that
\* is at risk and has no row of the user within the last 24 hours, at
\* most one per task; notifications_created is the number of rows it
\* created; for an unknown user it returns an error and creates nothing
C18_SweepExaminesOwnTasks ==
    [][ \A u \in Users \cup UnknownUsers, email_ok \in BOOLEAN :
          ScanAndNotify(u, email_ok) =>
            IF u \in Users
            THEN /\ Len(notifications') >= Len(notifications)
                 /\ SubSeq(notifications', 1, Len(notifications))
                      = notifications
                 /\ result'.at_risk_tasks_count
                      = Cardinality({ t \in Examined(u) :
                                        is_at_risk(tasks[t], now) })
                 /\ result'.notifications_created = Len(CreatedRows)
                 /\ \A i \in DOMAIN CreatedRows :
                      /\ CreatedRows[i].user_id = u
                      /\ \E t \in Examined(u) :
                           /\ tasks[t].title = CreatedRows[i].title
                           /\ is_at_risk(tasks[t], now)
                      /\ ~ \E k \in DOMAIN notifications :
                             /\ notifications[k].user_id = u
                             /\ notifications[k].title = CreatedRows[i].title
                             /\ notifications[k].created_at
                                  >= now - CooldownHours
                      /\ \A j \in DOMAIN CreatedRows :
                           CreatedRows[j].title = CreatedRows[i].title
                             => j = i
            ELSE /\ "error" \in DOMAIN result'
                 /\ "notifications_created" \notin DOMAIN result'
                 /\ notifications' = notifications
      ]_vars

\* A sweep that found two tasks at risk, skipped the one notified within
\* the last 24 hours and created a row for the other
C18_Witness ==
    /\ result.op = "scan_and_notify"
    /\ "error" \notin DOMAIN result
    /\ result.at_risk_tasks_count = 2
    /\ result.notifications_created = 1
    /\ result.timestamp = now
    /\ Len(notifications) = 2
    /\ notifications[2].created_at = now
    /\ notifications[1].created_at < now

\* C19: the list get_tasks_at_risk returns is ordered critical, high,
\* medium, low, no task coming after one of a strictly lower level, and
\* every task in it is at risk
C19_AtRiskSorted ==
    [][ \A u \in Users :
          GetTasksAtRisk(u) =>
            LET listed == result'.at_risk_tasks
            IN  /\ \A i, j \in DOMAIN listed :
                     i < j => risk_order(listed[i].risk_level)
                                >= risk_order(listed[j].risk_level)
                /\ \A i \in DOMAIN listed :
                     /\ listed[i].id \in DOMAIN tasks
                     /\ is_at_risk(tasks[listed[i].id], now)
                     /\ listed[i].risk_level
                          = get_risk_level(tasks[listed[i].id], now)
      ]_vars

\* A returned list in which the sort moved a critical task ahead of a
\* medium task with a smaller id
C19_Witness ==
    /\ result.op = "get_tasks_at_risk"
    /\ Len(result.at_risk_tasks) = 2
    /\ result.at_risk_tasks[1].risk_level = "critical"
    /\ result.at_risk_tasks[2].risk_level = "medium"
    /\ result.at_risk_tasks[1].id > result.at_risk_tasks[2].id

\* C20: in one pass of scheduled_deadline_monitoring a failure while one
\* user is swept leaves the other users swept: after the pass every task
\* at risk of a user whose own sweep met no failure has a Notification
\* row of that user within the last 24 hours
C20_FailureIsolated ==
    [][ \A order \in UserOrders, failure \in [Users -> FailureKinds] :
          ScheduledDeadlineMonitoring(order, failure) =>
            \A u \in Users :
              failure[u] = "none" =>
                \A t \in Examined(u) :
                  is_at_risk(tasks[t], now) =>
                    \E k \in DOMAIN notifications' :
                      /\ notifications'[k].user_id = u
                      /\ notifications'[k].title = tasks[t].title
                      /\ notifications'[k].created_at >= now - CooldownHours
      ]_vars

-----------------------------------------------------------------------------
(* Properties of late and repeated jobs                                    *)

\* The number of send_deadline_reminder messages for task t in a queue
Dispatches(q, t) ==
    BagCardinality([ x \in { y \in BagToSet(q) :
                               /\ y.name = "send_deadline_reminder"
                               /\ y.id = t } |-> CopiesIn(x, q) ])

\* C30: a run of schedule_task_reminder consumes its message and
\* dispatches exactly one send_deadline_reminder for the task; when the
\* reminder time has already passed, the dispatched job is runnable at
\* once instead of being dropped
C30_LateReminderDispatched ==
    [][ \A m \in BagToSet(queue) :
          ScheduleTaskReminder(m) =>
            /\ Dispatches(queue', m.id) = Dispatches(queue, m.id) + 1
            /\ CopiesIn(m, queue') = CopiesIn(m, queue) - 1
            /\ fromisoformat(m.reminder_time) <= now =>
                 \E x \in BagToSet(queue') :
                   /\ x.name = "send_deadline_reminder"
                   /\ x.id = m.id
                   /\ x.eta <= now
                   /\ CopiesIn(x, queue') = CopiesIn(x, queue) + 1
      ]_vars

\* schedule_task_reminder ran after the reminder time it was given had
\* passed, and the reminder it dispatched at once is waiting for a worker
C30_Witness ==
    /\ result.op = "schedule_task_reminder"
    /\ result.eta = Asap
    /\ now > 0
    /\ Dispatches(queue, result.task_id) >= 1
    /\ \E x \in BagToSet(queue) :
         /\ x.name = "send_deadline_reminder"
         /\ x.id = result.task_id
         /\ x.eta = Asap

\* C29: check_and_schedule_reminders dispatches at most one reminder per
\* task per cooldown window, also while an earlier dispatch is waiting
\* for a worker: a run that finds a reminder of the task still queued,
\* dispatched no longer ago than the task's current window (the clock
\* started at 0, so now <= reminder_delay), dispatches no other
C29_OneDispatchPerWindow ==
    [][ CheckAndScheduleReminders =>
          \A t \in DOMAIN tasks :
            (/\ tasks[t].due_date # NoDate
             /\ Dispatches(queue, t) >= 1
             /\ now <= reminder_decision(tasks[t], now).reminder_delay)
              => Dispatches(queue', t) = Dispatches(queue, t)
      ]_vars

-----------------------------------------------------------------------------
(* Properties of the notification lifecycle                                *)

\* The user's Notification rows for a title, as row numbers of a table
MatchingRows(table, u, title) ==
    { k \in DOMAIN table : /\ table[k].user_id = u
                           /\ message_contains(table[k], title) }

\* C24: what a sweep does with a task follows from the timestamps of the
\* matching Notification rows alone: a task at risk is passed over while
\* a matching row is at most 24 hours old, gets exactly one new row, dated
\* now, once the newest matching row is older than 24 hours or there is
\* none, and a task that is not at risk gets no row
C24_LifecycleFromTimestamps ==
    [][ \A u \in Users, email_ok \in BOOLEAN :
          ScanAndNotify(u, email_ok) =>
            \A t \in DOMAIN tasks :
              LET old == MatchingRows(notifications, u, tasks[t].title)
                  new == MatchingRows(notifications', u, tasks[t].title)
                          \ DOMAIN notifications
                  fresh == \E k \in old :
                             now - notifications[k].created_at
                               <= CooldownHours
              IN  IF t \in Examined(u) /\ is_at_risk(tasks[t], now)
                  THEN IF fresh
                       THEN new = {}
                       ELSE /\ Cardinality(new) = 1
                            /\ \A k \in new :
                                 notifications'[k].created_at = now
                  ELSE new = {}
      ]_vars

\* A sweep that notified a task again: the newest earlier row for the
\* task was older than 24 hours
C24_Witness ==
    /\ result.op = "scan_and_notify"
    /\ "error" \notin DOMAIN result
    /\ result.notifications_created = 1
    /\ Len(notifications) = 2
    /\ notifications[2].created_at = now
    /\ notifications[2].user_id = notifications[1].user_id
    /\ notifications[2].title = notifications[1].title
    /\ now - notifications[1].created_at > CooldownHours

-----------------------------------------------------------------------------
(* Properties of progress tracking                                         *)

\* pending, in_progress, completed in their order
StatusRank(status) ==
    CASE status = "pending"     -> 1
      [] status = "in_progress" -> 2
      [] status = "completed"   -> 3

\* C28: update_task_progress never moves the status backwards: a
\* completed task stays completed when its percentage is lowered, an
\* in_progress task is not returned to pending by 0 percent; a call whose
\* percentage, brought into 0..100, equals the stored one leaves the
\* status and last_progress_update as they were
C28_StatusMovesForward ==
    [][ \A t \in Tasks, percent \in ProgressInputs :
          UpdateTaskProgress(t, percent) =>
            LET asked == IF percent < 0 THEN 0
                         ELSE IF percent > 100 THEN 100 ELSE percent
            IN  /\ StatusRank(tasks'[t].status) >= StatusRank(tasks[t].status)
                /\ tasks[t].status = "completed"
                     => tasks'[t].status = "completed"
                /\ (tasks[t].status = "in_progress" /\ asked = 0)
                     => tasks'[t].status = "in_progress"
                /\ asked = tasks[t].percent_complete
                     => /\ tasks'[t].status = tasks[t].status
                        /\ tasks'[t].last_progress_update
                             = tasks[t].last_progress_update
      ]_vars

\* A completed task whose percentage was lowered to 0 at a later hour,
\* followed by a call that repeated the stored percentage
C28_Witness ==
    /\ result.op = "update_task_progress"
    /\ result.success
    /\ result.task_id \in DOMAIN tasks
    /\ tasks[result.task_id].status = "completed"
    /\ tasks[result.task_id].percent_complete = 0
    /\ result.percent_complete = -10
    /\ tasks[result.task_id].last_progress_update < now

-----------------------------------------------------------------------------
(* Properties of email delivery                                            *)

\* The user's tasks a sweep has to notify now: examined, at risk, without
\* a Notification row of the last 24 hours
DueForNotice(u) ==
    { t \in Examined(u) :
        /\ is_at_risk(tasks[t], now)
        /\ ~ \E k \in MatchingRows(notifications, u, tasks[t].title) :
               notifications[k].created_at >= now - CooldownHours }

\* C23: a failure of send_email never reaches the caller.  A sweep during
\* which it fails returns its summary, has created the Notification row
\* of every task due for one and counts no email as sent; a reminder job
\* during which it fails has created its Notification row and is done,
\* not retried
C23_EmailFailureContained ==
    [][ /\ \A u \in Users :
             ScanAndNotify(u, FALSE) =>
               /\ "error" \notin DOMAIN result'
               /\ result'.notifications_created
                    = Cardinality(DueForNotice(u))
               /\ Len(notifications')
                    = Len(notifications) + Cardinality(DueForNotice(u))
               /\ result'.emails_sent = 0
        /\ \A m \in BagToSet(queue) :
             (/\ SendDeadlineReminder(m, FALSE)
              /\ m.id \in DOMAIN tasks
              /\ tasks[m.id].owner_id \in Users
              /\ tasks[m.id].status # "completed"
              /\ tasks[m.id].due_date # NoDate) =>
               /\ Len(notifications') = Len(notifications) + 1
               /\ notifications'[Len(notifications')].user_id
                    = tasks[m.id].owner_id
               /\ notifications'[Len(notifications')].title
                    = tasks[m.id].title
               /\ queue' = Dequeue(queue, m)
               /\ result'.outcome = "sent"
      ]_vars

\* A sweep whose emails failed for two tasks: both rows are there, no
\* email is counted
C23_Witness ==
    /\ result.op = "scan_and_notify"
    /\ "error" \notin DOMAIN result
    /\ result.notifications_created = 2
    /\ result.emails_sent = 0
    /\ result.timestamp = now
    /\ Len(notifications) = 2
    /\ \A k \in DOMAIN notifications :
         /\ notifications[k].created_at = now
         /\ notifications[k].user_id = result.user_id
    /\ notifications[1].title # notifications[2].title

-----------------------------------------------------------------------------
(* Properties of errors within a sweep                                     *)

\* C21: an error while one task of a sweep is processed does not abort
\* the sweep: the tasks due for a notification other than the failing one
\* have their Notification row afterwards, and the sweep returns its
\* summary with a count of the failed tasks
C21_ItemErrorContained ==
    [][ \A u \in Users, k \in 1..Cardinality(SweepTasks) :
          ScanAndNotifyRaising(u, k) =>
            /\ \A t \in DueForNotice(u) :
                 t # get_tasks_at_risk(tasks, u, now)[k].id =>
                   \E i \in DOMAIN notifications' :
                     /\ notifications'[i].user_id = u
                     /\ notifications'[i].title = tasks[t].title
                     /\ notifications'[i].created_at = now
            /\ "notifications_created" \in DOMAIN result'
            /\ \E field \in {"failed", "skipped", "errors"} :
                 field \in DOMAIN result'
      ]_vars

-----------------------------------------------------------------------------
(* Properties of reminder jobs at fire time                                *)

\* A worker runs the body of send_deadline_reminder for m, whether or not
\* the acknowledgement gets through
Fires(m) ==
    \E email_ok \in BOOLEAN :
        \/ SendDeadlineReminder(m, email_ok)
        \/ SendDeadlineReminderUnacked(m, email_ok)

\* C22: a send_deadline_reminder message that the broker delivers again
\* leaves the Notification table as the first delivery left it
C22_RedeliveryHarmless ==
    [][ \A m \in BagToSet(queue) :
          (Fires(m) /\ "redelivered" \in DOMAIN m)
            => notifications' = notifications
      ]_vars

\* C26: a reminder job that fires when its task is deleted or completed,
\* or when the task's owner is no User, creates no Notification and sends
\* no email; a job that creates a Notification found its task there and
\* not completed
C26_StaleReminderSilent ==
    [][ \A m \in BagToSet(queue) :
          Fires(m) =>
            /\ (\/ m.id \notin DOMAIN tasks
                \/ tasks[m.id].status = "completed"
                \/ tasks[m.id].owner_id \notin Users)
                 => /\ notifications' = notifications
                    /\ "email_sent" \in DOMAIN result'
                         => ~result'.email_sent
            /\ notifications' # notifications
                 => /\ m.id \in DOMAIN tasks
                    /\ tasks[m.id].status \in {"pending", "in_progress"}
                    /\ Len(notifications') = Len(notifications) + 1
      ]_vars

\* A dispatched reminder fired after update_task_progress had completed
\* its task, and was skipped
C26_Witness ==
    /\ result.op = "send_deadline_reminder"
    /\ result.outcome = "skipped"
    /\ result.task_id \in DOMAIN tasks
    /\ tasks[result.task_id].status = "completed"
    /\ notifications = <<>>
    /\ queue = EmptyBag

\* C27: once PUT /tasks/<id>/status has marked a task completed, the
\* engine treats it as completed: a sweep does not count it at risk and
\* no step creates a Notification for it
C27_StatusRouteCompletes ==
    [][ \A t \in DOMAIN tasks :
          tasks[t].status_id = "completed" =>
            /\ ~ \E k \in DOMAIN notifications' \ DOMAIN notifications :
                   notifications'[k].title = tasks[t].title
            /\ (ScanAndNotify(tasks[t].owner_id, TRUE)
                  /\ tasks[t].owner_id \in Users)
                 => result'.at_risk_tasks_count = 0
      ]_vars

\* The rows of user u about a title that the dedup query at the given
\* time would count
RecentRows(table, u, title, clock) ==
    { k \in MatchingRows(table, u, title) :
        table[k].created_at >= clock - CooldownHours }

====
